---------------------------- MODULE Spec2Model ----------------------------
(***************************************************************************)
(* fibertract: per-tract transmission pipeline (src/src/tract.rs), Weber   *)
(* quantizer (src/src/weber.rs) and adaptation engine (src/src/adapt.rs).  *)
(*                                                                         *)
(* Integer widths.  TLC's integers are 32-bit, so i32 values are plain     *)
(* integers, while every value the code computes in u32/i64 that may       *)
(* leave the i32 range is a "wide" value: sign, high part and a 16-bit low *)
(* limb (magnitude = hi * 65536 + lo).  u64 noise states are four 16-bit   *)
(* limbs, least significant first.                                         *)
(***************************************************************************)
EXTENDS Integers, Sequences, FiniteSets, TLC

\* ------------------------------------------------------------------ bounds
\* calls made in a bounded run (the specifications that count steps)
MaxSteps == 2
\* active adapt ticks counted by lifetime_activations in one run
MaxActivations == 90
\* calls in a run of the use-then-disuse specification
MaxTicks == 20
\* active ticks after which that specification sends no further signal
MaxUses == 1
\* calls made on a tract at constructor defaults
MaxCalls == 8
\* raw sensory inputs are drawn from -MaxRaw..MaxRaw (plus the values
\* listed in RawExtremes)
MaxRaw == 260
\* magnitudes handed to weber_step / weber_fraction_pct: 0..MaxMagnitude
MaxMagnitude == 260

\* ------------------------------------------------------- machine integers
I32Max == 2147483647
I32Min == -I32Max - 1
Limb == 65536

\* Rust's integer division truncates toward zero (b > 0).
\* For a < 0 that is the ceiling of a / b, written without -a so that
\* a = i32::MIN stays in range.
TruncDiv(a, b) == IF a >= 0 THEN a \div b ELSE (a + (b - 1)) \div b

\* Rust's remainder has the sign of the dividend (b > 0).
TruncRem(a, b) == a - b * TruncDiv(a, b)

Min(a, b) == IF a < b THEN a ELSE b
Max(a, b) == IF a > b THEN a ELSE b
Clamp(x, lo, hi) == IF x < lo THEN lo ELSE IF x > hi THEN hi ELSE x

\* u8 saturating arithmetic
SatAddU8(a, b) == Min(255, a + b)
SatSubU8(a, b) == Max(0, a - b)

\* ---------------------------------------------------------- wide integers
WMake(neg, hi, lo) == [neg |-> neg /\ (hi # 0 \/ lo # 0), hi |-> hi, lo |-> lo]
WZero == WMake(FALSE, 0, 0)
WFromInt(x) ==
    IF x = I32Min THEN WMake(TRUE, 32768, 0)
    ELSE LET a == IF x < 0 THEN -x ELSE x
         IN WMake(x < 0, a \div Limb, a % Limb)
WIsZero(w) == w.hi = 0 /\ w.lo = 0
WNeg(w) == WMake(~w.neg, w.hi, w.lo)
WAbs(w) == WMake(FALSE, w.hi, w.lo)
\* w * k for 0 <= k <= 255
WMulSmall(w, k) ==
    LET p == w.lo * k
    IN WMake(w.neg, w.hi * k + p \div Limb, p % Limb)
\* w / d truncating toward zero, for 1 <= d <= 255
WDivSmall(w, d) ==
    LET r == w.hi % d
    IN WMake(w.neg, w.hi \div d, (r * Limb + w.lo) \div d)
WMagLess(a, b) == a.hi < b.hi \/ (a.hi = b.hi /\ a.lo < b.lo)
WMagAdd(a, b) ==
    LET s == a.lo + b.lo
    IN [hi |-> a.hi + b.hi + s \div Limb, lo |-> s % Limb]
\* |a| - |b| for |a| >= |b|
WMagSub(a, b) ==
    LET borrow == IF a.lo < b.lo THEN 1 ELSE 0
    IN [hi |-> a.hi - b.hi - borrow, lo |-> a.lo + borrow * Limb - b.lo]
WAdd(a, b) ==
    IF a.neg = b.neg
    THEN LET m == WMagAdd(a, b) IN WMake(a.neg, m.hi, m.lo)
    ELSE IF WMagLess(a, b)
         THEN LET m == WMagSub(b, a) IN WMake(b.neg, m.hi, m.lo)
         ELSE LET m == WMagSub(a, b) IN WMake(a.neg, m.hi, m.lo)
WSub(a, b) == WAdd(a, WNeg(b))
WLess(a, b) ==
    IF a.neg # b.neg THEN a.neg
    ELSE IF a.neg THEN WMagLess(b, a) ELSE WMagLess(a, b)
\* |w| < t for a small non-negative integer t
WAbsLessInt(w, t) == w.hi = 0 /\ w.lo < t
WFitsI32(w) ==
    IF w.neg THEN w.hi < 32768 \/ (w.hi = 32768 /\ w.lo = 0)
    ELSE w.hi < 32768
\* the integer a wide value stands for, when it fits i32
WToInt(w) == IF w.neg THEN (-w.hi) * Limb - w.lo ELSE w.hi * Limb + w.lo
\* val.clamp(i32::MIN as i64, i32::MAX as i64) as i32
WClampI32(w) ==
    IF WFitsI32(w) THEN WToInt(w) ELSE IF w.neg THEN I32Min ELSE I32Max
\* two's-complement wrap of a wide value to i32 (release-build overflow)
WWrapI32(w) ==
    LET mh == w.hi % Limb
        ml == w.lo
        \* the value modulo 2^32 as an unsigned pair
        uh == IF w.neg /\ (mh # 0 \/ ml # 0)
              THEN (IF ml = 0 THEN Limb - mh ELSE Limb - 1 - mh) % Limb
              ELSE mh
        ul == IF w.neg /\ ml # 0 THEN Limb - ml ELSE ml
    IN IF uh >= 32768 THEN (uh - Limb) * Limb + ul ELSE uh * Limb + ul

\* ------------------------------------------------------------ weber.rs
\* the mutant moves the 1000 band boundary to 1010
weber_quantize_band1010(raw) ==
    IF raw = 0 THEN 0
    ELSE
      LET abs_val == WAbs(WFromInt(raw))
          step == IF WAbsLessInt(abs_val, 50) THEN 5
                  ELSE IF WAbsLessInt(abs_val, 200) THEN 10
                  ELSE IF WAbsLessInt(abs_val, 1010) THEN 15
                  ELSE 25
          quantized_abs == WMulSmall(WDivSmall(abs_val, step), step)
      IN IF raw > 0 THEN WToInt(quantized_abs) ELSE WToInt(WNeg(quantized_abs))

\* the mutant drops the sign of negative inputs
weber_quantize_unsigned(raw) ==
    IF raw = 0 THEN 0
    ELSE
      LET abs_val == WAbs(WFromInt(raw))
          step == IF WAbsLessInt(abs_val, 50) THEN 5
                  ELSE IF WAbsLessInt(abs_val, 200) THEN 10
                  ELSE IF WAbsLessInt(abs_val, 1000) THEN 15
                  ELSE 25
          quantized_abs == WMulSmall(WDivSmall(abs_val, step), step)
      IN WToInt(quantized_abs)

weber_quantize(raw) ==
    IF raw = 0 THEN 0
    ELSE
      LET abs_val == WAbs(WFromInt(raw))
          step == IF WAbsLessInt(abs_val, 50) THEN 5
                  ELSE IF WAbsLessInt(abs_val, 200) THEN 10
                  ELSE IF WAbsLessInt(abs_val, 1000) THEN 15
                  ELSE 25
          quantized_abs == WMulSmall(WDivSmall(abs_val, step), step)
      IN IF raw > 0 THEN WToInt(quantized_abs) ELSE WToInt(WNeg(quantized_abs))

weber_step(magnitude) ==
    IF magnitude <= 49 THEN 5
    ELSE IF magnitude <= 199 THEN 10
    ELSE IF magnitude <= 999 THEN 15
    ELSE 25

\* the mutant inverts the ratio (magnitude / step instead of step / magnitude)
weber_fraction_pct_inverted(magnitude) ==
    IF magnitude = 0 THEN 255
    ELSE LET step == weber_step(magnitude)
             frac == (Min(magnitude, 65536) * 100) \div step
         IN Min(frac, 255)

weber_fraction_pct(magnitude) ==
    IF magnitude = 0 THEN 255
    ELSE LET step == weber_step(magnitude)
             frac == (step * 100) \div magnitude
         IN Min(frac, 255)

\* ------------------------------------------------- tract.rs: noise source
\* a u64 is <<l0, l1, l2, l3>>, 16-bit limbs, least significant first
Pow2[n \in 0 .. 16] == IF n = 0 THEN 1 ELSE 2 * Pow2[n - 1]
U64Bit(s, i) == (s[(i \div 16) + 1] \div Pow2[i % 16]) % 2
RECURSIVE LimbOfBits(_, _, _)
\* bits b[base + j .. base + 15] as the number they spell from weight 2^j
LimbOfBits(b, base, j) ==
    IF j > 15 THEN 0 ELSE b[base + j] + 2 * LimbOfBits(b, base, j + 1)
U64OfBits(b) == [k \in 1 .. 4 |-> LimbOfBits(b, 16 * (k - 1), 0)]
\* s mod m for 1 <= m <= 256
U64Mod(s, m) ==
    LET r3 == s[4] % m
        r2 == (r3 * Limb + s[3]) % m
        r1 == (r2 * Limb + s[2]) % m
    IN (r1 * Limb + s[1]) % m
\* (s as i64) % m with Rust's sign rule, for 1 <= m <= 256
I64RemOfU64(s, m) ==
    IF s[4] < 32768 THEN U64Mod(s, m)
    ELSE \* s as i64 = s - 2^64 < 0; its magnitude is 2^64 - s
         LET p16 == Limb % m
             p32 == (p16 * Limb) % m
             p48 == (p32 * Limb) % m
             two64 == (p48 * Limb) % m
         IN -((two64 + m - U64Mod(s, m)) % m)

\* the three shift-xor steps on a state given as a value
XorshiftSteps(a, b, c, state) ==
    LET b0 == [i \in 0 .. 63 |-> U64Bit(state, i)]
        \* state ^= state << a
        b1 == [i \in 0 .. 63 |->
                 (b0[i] + (IF i >= a THEN b0[i - a] ELSE 0)) % 2]
        \* state ^= state >> b
        b2 == [i \in 0 .. 63 |->
                 (b1[i] + (IF i + b <= 63 THEN b1[i + b] ELSE 0)) % 2]
        \* state ^= state << c
        b3 == [i \in 0 .. 63 |->
                 (b2[i] + (IF i >= c THEN b2[i - c] ELSE 0)) % 2]
    IN U64OfBits(b3)

\* the mutant leaves out the first step (state ^= state << 13)
xorshift_badshift(state) ==
    CHOOSE r \in {XorshiftSteps(64, 7, 17, s) : s \in {state}} : TRUE

xorshift(state) ==
    CHOOSE r \in {XorshiftSteps(13, 7, 17, s) : s \in {state}} : TRUE

\* the states after one, two and three calls of xorshift
XorshiftRuns(seed) ==
    {<<p[1], p[2], xorshift(p[2])>> :
        p \in {<<s1, xorshift(s1)>> : s1 \in {xorshift(seed)}}}

\* ------------------------------------------------------ tract.rs: the data
Phasic == "Phasic"
Tonic == "Tonic"

Proprioceptive == 0
Mechanoreceptive == 1
NociceptiveFast == 2
NociceptiveSlow == 3
Interoceptive == 4
MotorSkeletal == 5
MotorSpindle == 6

is_afferent(kind) == kind < 5
is_efferent(kind) == kind >= 5

\* Signal::default()
ZeroSignal == [polarity |-> 0, magnitude |-> 0]

\* debug_assert!(kind.is_efferent()) stops a debug build; a release build
\* does not evaluate it.
new_motor(kind, dim) ==
    [kind |-> kind, dim |-> dim,
     motor_signals |-> [i \in 1 .. dim |-> ZeroSignal],
     sensory_signals |-> << >>,
     motor_prev |-> [i \in 1 .. dim |-> ZeroSignal],
     sensory_prev |-> << >>,
     conductivity |-> 128, jitter |-> 128, fatigue |-> 0, endurance |-> 128,
     elasticity |-> 128, sensitivity |-> 128, gain |-> 160, strength |-> 128,
     receptor_mode |-> Phasic,
     lifetime_activations |-> 0, recent_density |-> 0]

new_sensory(kind, dim) ==
    [kind |-> kind, dim |-> dim,
     motor_signals |-> << >>,
     sensory_signals |-> [i \in 1 .. dim |-> 0],
     motor_prev |-> << >>,
     sensory_prev |-> [i \in 1 .. dim |-> 0],
     conductivity |-> 128, jitter |-> 128, fatigue |-> 0, endurance |-> 128,
     elasticity |-> 128, sensitivity |-> 128, gain |-> 100, strength |-> 128,
     receptor_mode |-> Phasic,
     lifetime_activations |-> 0, recent_density |-> 0]

\* Option<T> of a TractSpec override: None, or Some(v)
None == << >>
Some(v) == <<v>>
\* if let Some(v) = option { field = v; }
Override(default, option) == IF Len(option) = 0 THEN default ELSE option[1]

\* TractSpec::build: the kind-appropriate constructor, then the overrides
build(spec) ==
    LET t == IF is_efferent(spec.kind) THEN new_motor(spec.kind, spec.dim)
             ELSE new_sensory(spec.kind, spec.dim)
    IN [t EXCEPT !.conductivity = Override(@, spec.conductivity),
                 !.jitter = Override(@, spec.jitter),
                 !.gain = Override(@, spec.gain),
                 !.sensitivity = Override(@, spec.sensitivity),
                 !.endurance = Override(@, spec.endurance),
                 !.elasticity = Override(@, spec.elasticity),
                 !.strength = Override(@, spec.strength),
                 !.receptor_mode = Override(@, spec.receptor_mode)]

\* TractSpec::new
TractSpec_new(kind, dim) ==
    [kind |-> kind, dim |-> dim, conductivity |-> None, jitter |-> None,
     gain |-> None, sensitivity |-> None, endurance |-> None,
     elasticity |-> None, strength |-> None, receptor_mode |-> None]

\* ---------------------------------------------- tract.rs: transmit_motor
\* the mutant rounds the decayed magnitude up
MotorDecay_roundsup(t, prev) ==
    LET smoothed_mag == (prev.magnitude * (255 - t.elasticity) + 254) \div 255
    IN IF smoothed_mag = 0 THEN ZeroSignal
       ELSE [polarity |-> prev.polarity, magnitude |-> smoothed_mag]

\* the mutant keeps the previous polarity on a channel that decayed to zero
MotorDecay_keepspolarity(t, prev) ==
    [polarity |-> prev.polarity,
     magnitude |-> (prev.magnitude * (255 - t.elasticity)) \div 255]

\* input signal zero: the previous output decays toward zero
MotorDecay(t, prev) ==
    LET smoothed_mag == (prev.magnitude * (255 - t.elasticity)) \div 255
    IN IF smoothed_mag = 0 THEN ZeroSignal
       ELSE [polarity |-> prev.polarity, magnitude |-> smoothed_mag]

\* the mutant divides by 255 instead of 128
MotorGain_div255(t, mag) == (mag * t.gain) \div 255

\* 1. gain modulation
MotorGain(t, mag) == (mag * t.gain) \div 128

\* 2. conductivity loss
MotorConductivity(t, mag) == (mag * t.conductivity) \div 255

\* the mutant scales by fatigue instead of by 255 - fatigue
MotorFatigue_inverted(t, mag) == (mag * t.fatigue) \div 255

\* 3. fatigue degradation
MotorFatigue(t, mag) == (mag * Max(0, 255 - t.fatigue)) \div 255

\* the mutant draws the noise from 0 .. jitter / 2
MotorJitter_halfrange(t, mag, polarity, seed) ==
    IF t.jitter > 0
    THEN CHOOSE r \in
           {LET seed1 == run[1]
                noise == U64Mod(seed1, t.jitter \div 2 + 1)
                seed2 == run[2]
                sign == IF U64Mod(seed2, 2) = 0 THEN 1 ELSE -1
                noisy == Clamp(mag + noise * sign, 0, 512)
            IN IF t.jitter > 200
               THEN LET seed3 == run[3]
                    IN [mag |-> noisy,
                        polarity |-> IF U64Mod(seed3, 8) = 0
                                     THEN -polarity ELSE polarity,
                        seed |-> seed3]
               ELSE [mag |-> noisy, polarity |-> polarity, seed |-> seed2]
            : run \in XorshiftRuns(seed)} : TRUE
    ELSE [mag |-> mag, polarity |-> polarity, seed |-> seed]

\* 4. jitter noise: the magnitude, the polarity and the noise state after it
\* (each noise state is bound once, as a value, by the set it is drawn from)
MotorJitter(t, mag, polarity, seed) ==
    IF t.jitter > 0
    THEN CHOOSE r \in
           {LET seed1 == run[1]
                noise == U64Mod(seed1, t.jitter \div 4 + 1)
                seed2 == run[2]
                sign == IF U64Mod(seed2, 2) = 0 THEN 1 ELSE -1
                noisy == Clamp(mag + noise * sign, 0, 512)
            IN IF t.jitter > 200
               THEN LET seed3 == run[3]
                    IN [mag |-> noisy,
                        polarity |-> IF U64Mod(seed3, 8) = 0
                                     THEN -polarity ELSE polarity,
                        seed |-> seed3]
               ELSE [mag |-> noisy, polarity |-> polarity, seed |-> seed2]
            : run \in XorshiftRuns(seed)} : TRUE
    ELSE [mag |-> mag, polarity |-> polarity, seed |-> seed]

\* 5. recruitment threshold
MotorRecruit(t, mag) ==
    LET threshold == Max(0, 255 - t.sensitivity)
    IN IF mag < threshold THEN 0 ELSE mag

\* the mutant divides the step by 128
MotorSmooth_div128(t, target_mag, prev) ==
    LET prev_mag == prev.magnitude
        delta == target_mag - prev_mag
        smoothed == prev_mag + TruncDiv(delta * t.elasticity, 128)
    IN Clamp(smoothed, 0, 255)

\* 6. elasticity smoothing, clamped to u8
MotorSmooth(t, target_mag, prev) ==
    LET prev_mag == prev.magnitude
        delta == target_mag - prev_mag
        smoothed == prev_mag + TruncDiv(delta * t.elasticity, 255)
    IN Clamp(smoothed, 0, 255)

\* one iteration of the channel loop: the signal written to motor_signals[i]
\* and motor_prev[i], and the noise state handed to the next channel
MotorChannel(t, sig, prev, seed) ==
    IF sig.polarity = 0 \/ sig.magnitude = 0
    THEN [out |-> MotorDecay(t, prev), seed |-> seed]
    ELSE CHOOSE r \in
           {LET target_mag == Min(MotorRecruit(t, j.mag), 255)
                final_mag == MotorSmooth(t, target_mag, prev)
            IN [out |-> IF final_mag = 0 THEN ZeroSignal
                        ELSE [polarity |-> j.polarity,
                              magnitude |-> final_mag],
                seed |-> j.seed]
            : j \in {MotorJitter(t,
                        MotorFatigue(t, MotorConductivity(t,
                            MotorGain(t, sig.magnitude))),
                        sig.polarity, seed)}} : TRUE

\* an arithmetic step of one motor channel leaves the type it is computed in:
\* u16 for the decay product, u32 for the scaled magnitudes (never negative),
\* i8 for the flipped polarity
MotorChannelOverflows(t, sig, prev, seed) ==
    IF sig.polarity = 0 \/ sig.magnitude = 0
    THEN prev.magnitude * (255 - t.elasticity) > 65535
    ELSE LET m1 == MotorGain(t, sig.magnitude)
             m2 == MotorConductivity(t, m1)
             m3 == MotorFatigue(t, m2)
             j == MotorJitter(t, m3, sig.polarity, seed)
         IN \/ m1 < 0 \/ m2 < 0 \/ m3 < 0
            \/ (j.polarity # sig.polarity /\ sig.polarity = -128)

RECURSIVE MotorLoop(_, _, _, _, _, _, _)
\* for i in 0..len (channels i+1 .. len of the 1-based sequences)
MotorLoop(t, input, i, len, seed, signals, prevs) ==
    IF i > len THEN [signals |-> signals, prevs |-> prevs, overflowed |-> FALSE]
    ELSE CHOOSE res \in
           {[MotorLoop(t, input, i + 1, len, r[1].seed,
                       [signals EXCEPT ![i] = r[1].out],
                       [prevs EXCEPT ![i] = r[1].out])
                EXCEPT !.overflowed = @ \/ r[2]]
            : r \in {<<MotorChannel(t, input[i], prevs[i], seed),
                       MotorChannelOverflows(t, input[i], prevs[i], seed)>>}}
           : TRUE

\* the mutant leaves the channels past the input as they were
transmit_motor_keepsrest(t, input, rng_seed, debug) ==
    LET len == Min(Len(input), t.dim)
    IN IF debug /\ ~is_efferent(t.kind)
       THEN [tract |-> t, panicked |-> TRUE, overflowed |-> FALSE]
       ELSE IF t.dim > Len(t.motor_signals)
       THEN [tract |-> t, panicked |-> TRUE, overflowed |-> FALSE]
       ELSE CHOOSE res \in
              {[tract |-> [t EXCEPT
                    !.motor_signals = r.signals,
                    !.motor_prev = r.prevs],
                panicked |-> FALSE,
                overflowed |-> r.overflowed]
               : r \in {MotorLoop(t, input, 1, len, rng_seed,
                                  t.motor_signals, t.motor_prev)}} : TRUE

\* transmit_motor(&mut self, input, rng_seed) under a build with
\* debug assertions on (debug) or off (release): the tract after the call,
\* whether the call panicked, whether an arithmetic step overflowed
transmit_motor(t, input, rng_seed, debug) ==
    LET len == Min(Len(input), t.dim)
    IN IF debug /\ ~is_efferent(t.kind)
       THEN \* debug_assert!(self.kind.is_efferent())
            [tract |-> t, panicked |-> TRUE, overflowed |-> FALSE]
       ELSE IF t.dim > Len(t.motor_signals)
       THEN \* the motor buffers are empty: the first index panics
            [tract |-> t, panicked |-> TRUE, overflowed |-> FALSE]
       ELSE CHOOSE res \in
              {[tract |-> [t EXCEPT
                    !.motor_signals = [i \in 1 .. t.dim |->
                        IF i <= len THEN r.signals[i] ELSE ZeroSignal],
                    !.motor_prev = [i \in 1 .. t.dim |->
                        IF i <= len THEN r.prevs[i] ELSE ZeroSignal]],
                panicked |-> FALSE,
                overflowed |-> r.overflowed]
               : r \in {MotorLoop(t, input, 1, len, rng_seed,
                                  t.motor_signals, t.motor_prev)}} : TRUE

\* -------------------------------------------- tract.rs: transmit_sensory
\* prev * (255 - elasticity) in i32, as the exact wide product
SensoryDecayProduct(t, prev) == WMulSmall(WFromInt(prev), 255 - t.elasticity)

\* quantized input zero: the previous output decays toward zero.  The
\* product is computed in i32: a release build wraps it.
SensoryDecay(t, prev) ==
    TruncDiv(WWrapI32(SensoryDecayProduct(t, prev)), 255)

\* the mutant divides by 255 instead of 128
SensoryGain_div255(t, val) == WDivSmall(WMulSmall(val, t.gain), 255)

\* 1. gain modulation (i64)
SensoryGain(t, val) == WDivSmall(WMulSmall(val, t.gain), 128)

\* 2. conductivity loss (i64)
SensoryConductivity(t, val) == WDivSmall(WMulSmall(val, t.conductivity), 255)

\* 3. fatigue degradation (i64)
SensoryFatigue(t, val) == WDivSmall(WMulSmall(val, 255 - t.fatigue), 255)

\* the noise value of step 4
SensoryNoise(t, seed1) ==
    LET noise_range == t.jitter
    IN I64RemOfU64(seed1, noise_range + 1) - noise_range \div 2

\* 4. jitter noise: the value and the noise state after it
SensoryJitter(t, val, seed) ==
    IF t.jitter > 0
    THEN CHOOSE r \in
           {[val |-> WAdd(val, WFromInt(SensoryNoise(t, seed1))),
             seed |-> seed1]
            : seed1 \in {xorshift(seed)}} : TRUE
    ELSE [val |-> val, seed |-> seed]

\* the mutant gates tonic receptors too
SensoryThreshold_alwaysgates(t, val) ==
    LET threshold == (255 - t.sensitivity) * 4
    IN IF WAbsLessInt(val, threshold) THEN WZero ELSE val

\* the mutant compares against 255 - sensitivity, without the factor 4
SensoryThreshold_unscaled(t, val) ==
    IF t.receptor_mode = Phasic
    THEN LET threshold == 255 - t.sensitivity
         IN IF WAbsLessInt(val, threshold) THEN WZero ELSE val
    ELSE val

\* 5. sensitivity threshold, phasic receptors only
SensoryThreshold(t, val) ==
    IF t.receptor_mode = Phasic
    THEN LET threshold == (255 - t.sensitivity) * 4
         IN IF WAbsLessInt(val, threshold) THEN WZero ELSE val
    ELSE val


\* 6. elasticity smoothing (i64), clamped to i32
SensorySmooth(t, target, prev) ==
    LET p == WFromInt(prev)
        d == WSub(WFromInt(target), p)
        smoothed == WAdd(p, WDivSmall(WMulSmall(d, t.elasticity), 255))
    IN WClampI32(smoothed)

\* the value after gain, conductivity and fatigue scaling
SensoryScaled(t, quantized) ==
    SensoryFatigue(t, SensoryConductivity(t,
        SensoryGain(t, WFromInt(quantized))))

\* one iteration of the channel loop: the value written to
\* sensory_signals[i] and sensory_prev[i], the noise state handed on, and
\* whether an arithmetic step left its type (only the i32 decay product can)
SensoryChannel(t, x, prev, seed) ==
    LET quantized == weber_quantize(x)
    IN IF quantized = 0
       THEN [out |-> SensoryDecay(t, prev), seed |-> seed,
             overflowed |-> ~WFitsI32(SensoryDecayProduct(t, prev))]
       ELSE CHOOSE r \in
              {LET target == WClampI32(SensoryThreshold(t, j.val))
               IN [out |-> SensorySmooth(t, target, prev), seed |-> j.seed,
                   overflowed |-> FALSE]
               : j \in {SensoryJitter(t, SensoryScaled(t, quantized), seed)}}
              : TRUE

RECURSIVE SensoryLoop(_, _, _, _, _, _, _, _)
\* for i in 0..len; an overflow stops a debug build at that channel, with
\* the earlier channels already written
SensoryLoop(t, input, i, len, seed, signals, prevs, debug) ==
    IF i > len
    THEN [signals |-> signals, prevs |-> prevs,
          panicked |-> FALSE, overflowed |-> FALSE]
    ELSE CHOOSE res \in
           {IF r.overflowed /\ debug
            THEN [signals |-> signals, prevs |-> prevs,
                  panicked |-> TRUE, overflowed |-> TRUE]
            ELSE [SensoryLoop(t, input, i + 1, len, r.seed,
                              [signals EXCEPT ![i] = r.out],
                              [prevs EXCEPT ![i] = r.out], debug)
                     EXCEPT !.overflowed = @ \/ r.overflowed]
            : r \in {SensoryChannel(t, input[i], prevs[i], seed)}} : TRUE

\* transmit_sensory(&mut self, input, rng_seed) under a build with debug
\* assertions and overflow checks on (debug) or off (release)
transmit_sensory(t, input, rng_seed, debug) ==
    LET len == Min(Len(input), t.dim)
    IN IF debug /\ ~is_afferent(t.kind)
       THEN \* debug_assert!(self.kind.is_afferent())
            [tract |-> t, panicked |-> TRUE, overflowed |-> FALSE]
       ELSE IF t.dim > Len(t.sensory_signals)
       THEN \* the sensory buffers are empty: the first index panics
            [tract |-> t, panicked |-> TRUE, overflowed |-> FALSE]
       ELSE CHOOSE res \in
              {IF r.panicked
               THEN [tract |-> [t EXCEPT !.sensory_signals = r.signals,
                                         !.sensory_prev = r.prevs],
                     panicked |-> TRUE, overflowed |-> TRUE]
               ELSE [tract |-> [t EXCEPT
                        !.sensory_signals = [i \in 1 .. t.dim |->
                            IF i <= len THEN r.signals[i] ELSE 0],
                        !.sensory_prev = [i \in 1 .. t.dim |->
                            IF i <= len THEN r.prevs[i] ELSE 0]],
                     panicked |-> FALSE,
                     overflowed |-> r.overflowed]
               : r \in {SensoryLoop(t, input, 1, len, rng_seed,
                                    t.sensory_signals, t.sensory_prev,
                                    debug)}} : TRUE

\* ----------------------------------------------------------- adapt.rs
\* AdaptationConfig::default()
DefaultConfig ==
    [myelination_rate |-> 1, demyelination_rate |-> 1,
     jitter_improvement_rate |-> 1, jitter_decay_rate |-> 1,
     fatigue_rate |-> 2, recovery_rate |-> 3,
     strengthening_rate |-> 1, atrophy_rate |-> 1,
     atrophy_delay |-> 50, idle_threshold |-> 10,
     sensitization_rate |-> 1, desensitization_rate |-> 1]

\* FiberTract::is_active
is_active(t) ==
    IF is_efferent(t.kind)
    THEN \E i \in 1 .. Len(t.motor_signals) :
            t.motor_signals[i].polarity # 0 /\ t.motor_signals[i].magnitude > 0
    ELSE \E i \in 1 .. Len(t.sensory_signals) : t.sensory_signals[i] # 0

\* FiberTract::activity_level: the u64 sum of the output magnitudes of an
\* efferent tract, of the absolute sensory values otherwise (wide integer).
RECURSIVE SumMagnitudes(_)
SumMagnitudes(signals) ==
    IF signals = <<>> THEN WFromInt(0)
    ELSE WAdd(WFromInt(Head(signals).magnitude), SumMagnitudes(Tail(signals)))

RECURSIVE SumAbs(_)
SumAbs(values) ==
    IF values = <<>> THEN WFromInt(0)
    ELSE WAdd(WAbs(WFromInt(Head(values))), SumAbs(Tail(values)))

activity_level(t) ==
    IF is_efferent(t.kind)
    THEN SumMagnitudes(t.motor_signals)
    ELSE SumAbs(t.sensory_signals)

\* adapt_tract reads tract.input_density.  FiberTract as declared in
\* tract.rs has no such field and nothing under src/ writes it: the model
\* carries it as one more field of the tract record, holding any u8.
WithInputDensity(t, d) == t @@ [input_density |-> d]

\* lifetime_activations.saturating_add(1) on u64; the model's runs stay far
\* below u64::MAX
AdaptLifetime(t, active) ==
    IF active THEN t.lifetime_activations + 1 ELSE t.lifetime_activations

\* the mutant drops the floor of one on the active step
AdaptDensity_nofloor(t, active) ==
    LET density == t.recent_density
    IN IF active
       THEN SatAddU8(density, SatSubU8(255, density) \div 16)
       ELSE SatSubU8(density, Max(density \div 16, 1))

\* the rolling output density: pushed toward 255 when active, decayed toward
\* 0 when idle
AdaptDensity(t, active) ==
    LET density == t.recent_density
    IN IF active
       THEN Max(SatAddU8(density, SatSubU8(255, density) \div 16),
                SatAddU8(density, 1))
       ELSE SatSubU8(density, Max(density \div 16, 1))

\* the mutant lets endurance slow recovery down instead of speeding it up
AdaptFatigue_slowrecovery(t, config, active) ==
    IF active
    THEN LET effective_fatigue_rate ==
                 IF config.fatigue_rate > t.endurance \div 32
                 THEN config.fatigue_rate - t.endurance \div 32
                 ELSE 0
         IN SatAddU8(t.fatigue, effective_fatigue_rate)
    ELSE LET effective_recovery ==
                 SatSubU8(config.recovery_rate, t.endurance \div 64)
         IN SatSubU8(t.fatigue, effective_recovery)

\* the mutant accrues fatigue at the full rate whatever the endurance
AdaptFatigue_noendurance(t, config, active) ==
    IF active
    THEN SatAddU8(t.fatigue, config.fatigue_rate)
    ELSE LET effective_recovery ==
                 SatAddU8(config.recovery_rate, t.endurance \div 64)
         IN SatSubU8(t.fatigue, effective_recovery)

\* the mutant divides endurance by 128 instead of 32 in the fatigue rate
AdaptFatigue_div128(t, config, active) ==
    IF active
    THEN LET effective_fatigue_rate ==
                 IF config.fatigue_rate > t.endurance \div 128
                 THEN config.fatigue_rate - t.endurance \div 128
                 ELSE 0
         IN SatAddU8(t.fatigue, effective_fatigue_rate)
    ELSE LET effective_recovery ==
                 SatAddU8(config.recovery_rate, t.endurance \div 64)
         IN SatSubU8(t.fatigue, effective_recovery)

\* fatigue: accumulates during use, tempered by endurance; recovers at rest
AdaptFatigue(t, config, active) ==
    IF active
    THEN LET effective_fatigue_rate ==
                 IF config.fatigue_rate > t.endurance \div 32
                 THEN config.fatigue_rate - t.endurance \div 32
                 ELSE 0
         IN SatAddU8(t.fatigue, effective_fatigue_rate)
    ELSE LET effective_recovery ==
                 SatAddU8(config.recovery_rate, t.endurance \div 64)
         IN SatSubU8(t.fatigue, effective_recovery)

\* the mutant tests the fatigue read before this tick's accrual
AdaptStrength_oldfatigue(t, config, active, fatigue) ==
    LET density == t.recent_density
    IN IF active
       THEN IF t.fatigue > 128 /\ density > 100
            THEN SatAddU8(t.strength, config.strengthening_rate)
            ELSE t.strength
       ELSE IF density = 0 /\ t.lifetime_activations > 0
            THEN SatSubU8(t.strength, config.atrophy_rate)
            ELSE t.strength

\* the mutant lets a never-used tract atrophy
AdaptStrength_nolifetime(t, config, active, fatigue) ==
    LET density == t.recent_density
    IN IF active
       THEN IF fatigue > 128 /\ density > 100
            THEN SatAddU8(t.strength, config.strengthening_rate)
            ELSE t.strength
       ELSE IF density = 0
            THEN SatSubU8(t.strength, config.atrophy_rate)
            ELSE t.strength

\* strength: grows on an active tick with the new fatigue above 128 and the
\* old density above 100; decays on an idle tick at density 0 after prior use
AdaptStrength(t, config, active, fatigue) ==
    LET density == t.recent_density
    IN IF active
       THEN IF fatigue > 128 /\ density > 100
            THEN SatAddU8(t.strength, config.strengthening_rate)
            ELSE t.strength
       ELSE IF density = 0 /\ t.lifetime_activations > 0
            THEN SatSubU8(t.strength, config.atrophy_rate)
            ELSE t.strength

\* conductivity: myelination under input stimulation, demyelination without
AdaptConductivity(t, config) ==
    LET density == t.recent_density
        input_density == t.input_density
    IN IF input_density > config.idle_threshold
       THEN SatAddU8(t.conductivity, config.myelination_rate)
       ELSE IF input_density = 0 /\ density < config.idle_threshold
            THEN SatSubU8(t.conductivity, config.demyelination_rate)
            ELSE t.conductivity

\* sensitivity: sensitization under input stimulation, desensitization
\* without
AdaptSensitivity(t, config) ==
    LET input_density == t.input_density
    IN IF input_density > config.idle_threshold
       THEN SatAddU8(t.sensitivity, config.sensitization_rate)
       ELSE IF input_density = 0
            THEN SatSubU8(t.sensitivity, config.desensitization_rate)
            ELSE t.sensitivity

\* jitter: practice under sustained stimulation, decay without
AdaptJitter(t, config) ==
    LET density == t.recent_density
        input_density == t.input_density
    IN IF input_density > config.idle_threshold
       THEN IF input_density > 128
            THEN SatSubU8(t.jitter, config.jitter_improvement_rate)
            ELSE t.jitter
       ELSE IF input_density = 0 /\ density < config.idle_threshold
            THEN SatAddU8(t.jitter, config.jitter_decay_rate)
            ELSE t.jitter

\* adapt_tract(tract, config): one tick
adapt_tract(t, config) ==
    LET active == is_active(t)
        fatigue == AdaptFatigue(t, config, active)
    IN [t EXCEPT
          !.lifetime_activations = AdaptLifetime(t, active),
          !.recent_density = AdaptDensity(t, active),
          !.fatigue = fatigue,
          !.strength = AdaptStrength(t, config, active, fatigue),
          !.conductivity = AdaptConductivity(t, config),
          !.sensitivity = AdaptSensitivity(t, config),
          !.jitter = AdaptJitter(t, config)]

\* ------------------------------------------------------------------ state
VARIABLES
    raw,         \* weber_quantize: the last argument
    quantized,   \* weber_quantize: its result
    magnitude,   \* weber_step / weber_fraction_pct: the last argument
    step,        \* weber_step(magnitude)
    fraction,    \* weber_fraction_pct(magnitude)
    tract,       \* the FiberTract
    twin,        \* a second FiberTract, driven with the same inputs
    debug_assertions, \* the build: TRUE = debug profile, FALSE = release
    status,      \* "ok", or "panic" once a call has panicked
    overflowed,  \* an arithmetic step of the last call left its type
    last,        \* the last call: its name, input and seed
    steps        \* calls made so far in a bounded run

weberVars == <<raw, quantized, magnitude, step, fraction>>
callVars == <<tract, twin, debug_assertions, status, overflowed, last>>
vars == <<raw, quantized, magnitude, step, fraction,
          tract, twin, debug_assertions, status, overflowed, last, steps>>

\* the values around the 1000 band boundary
HighBand == 985 .. 1030
\* raw values beyond -MaxRaw..MaxRaw: the 1000 boundary, values far inside
\* the open-ended band and the ends of the i32 range
RawExtremes == HighBand \cup {-x : x \in HighBand} \cup
               {5000, 5013, -5013, 10000000, -10000000,
                I32Max, I32Max - 22, -I32Max, I32Min}
RawInputs == (-MaxRaw .. MaxRaw) \cup RawExtremes
Magnitudes == (0 .. MaxMagnitude) \cup HighBand \cup {5000, 65535, 65536, I32Max}

NoSeed == <<0, 0, 0, 0>>
\* rng seeds: a small one and one whose top bit is set (negative as i64)
Seeds == {<<42, 0, 0, 0>>, <<1, 0, 0, 32768>>}

Sig(p, m) == [polarity |-> p, magnitude |-> m]


WeberStart ==
    /\ raw = 0
    /\ quantized = weber_quantize(0)
    /\ magnitude = 0
    /\ step = weber_step(0)
    /\ fraction = weber_fraction_pct(0)

\* the state right after construction of `t` under build `debug`
TwinStart(t, t2, debug) ==
    /\ tract = t
    /\ twin = t2
    /\ debug_assertions = debug
    /\ status = "ok"
    /\ overflowed = FALSE
    /\ last = [op |-> "new", input |-> << >>, seed |-> NoSeed]
    /\ steps = 0
TractStart(t, debug) == TwinStart(t, t, debug)

InitWeber ==
    /\ WeberStart
    /\ TractStart(new_sensory(Proprioceptive, 0), TRUE)

\* ---------------------------------------------------------------- actions
\* a caller quantizes a raw stimulus
Quantize(x) ==
    /\ raw' = x
    /\ quantized' = weber_quantize(x)
    /\ UNCHANGED <<magnitude, step, fraction>>
    /\ UNCHANGED callVars

\* a caller quantizes a value that is already quantized
Requantize ==
    /\ raw' = quantized
    /\ quantized' = weber_quantize(quantized)
    /\ UNCHANGED <<magnitude, step, fraction>>
    /\ UNCHANGED callVars

\* a caller asks for the resolution at a magnitude
Measure(m) ==
    /\ magnitude' = m
    /\ step' = weber_step(m)
    /\ fraction' = weber_fraction_pct(m)
    /\ UNCHANGED <<raw, quantized>>
    /\ UNCHANGED callVars

\* tract.transmit_motor(input, seed)
TransmitMotor(input, seed) ==
    /\ status = "ok"
    /\ LET r == transmit_motor(tract, input, seed, debug_assertions)
       IN /\ tract' = r.tract
          /\ status' = IF r.panicked THEN "panic" ELSE "ok"
          /\ overflowed' = r.overflowed
    /\ last' = [op |-> "transmit_motor", input |-> input, seed |-> seed]
    /\ UNCHANGED <<twin, debug_assertions>>
    /\ UNCHANGED weberVars

\* tract.transmit_sensory(input, seed)
TransmitSensory(input, seed) ==
    /\ status = "ok"
    /\ LET r == transmit_sensory(tract, input, seed, debug_assertions)
       IN /\ tract' = r.tract
          /\ status' = IF r.panicked THEN "panic" ELSE "ok"
          /\ overflowed' = r.overflowed
    /\ last' = [op |-> "transmit_sensory", input |-> input, seed |-> seed]
    /\ UNCHANGED <<twin, debug_assertions>>
    /\ UNCHANGED weberVars

\* tract.transmit_sensory(input, seed); twin.transmit_sensory(input, seed)
TransmitSensoryBoth(input, seed) ==
    /\ status = "ok"
    /\ LET r == transmit_sensory(tract, input, seed, debug_assertions)
           r2 == transmit_sensory(twin, input, seed, debug_assertions)
       IN /\ tract' = r.tract
          /\ twin' = r2.tract
          /\ status' = IF r.panicked \/ r2.panicked THEN "panic" ELSE "ok"
          /\ overflowed' = (r.overflowed \/ r2.overflowed)
    /\ last' = [op |-> "transmit_sensory", input |-> input, seed |-> seed]
    /\ UNCHANGED debug_assertions
    /\ UNCHANGED weberVars

\* adapt_tract(&mut tract, &config); last.input keeps the config and the
\* tract as it was before the tick
Adapt(config) ==
    /\ status = "ok"
    /\ is_active(tract) => tract.lifetime_activations < MaxActivations
    /\ tract' = adapt_tract(tract, config)
    /\ last' = [op |-> "adapt",
                input |-> [config |-> config, before |-> tract,
                           twin_before |-> twin],
                seed |-> NoSeed]
    /\ UNCHANGED <<twin, debug_assertions, status, overflowed>>
    /\ UNCHANGED weberVars

\* adapt_tract(&mut tract, &config); adapt_tract(&mut twin, &config)
AdaptBoth(config) ==
    /\ status = "ok"
    /\ is_active(tract) => tract.lifetime_activations < MaxActivations
    /\ tract' = adapt_tract(tract, config)
    /\ twin' = adapt_tract(twin, config)
    /\ last' = [op |-> "adapt",
                input |-> [config |-> config, before |-> tract,
                           twin_before |-> twin],
                seed |-> NoSeed]
    /\ UNCHANGED <<debug_assertions, status, overflowed>>
    /\ UNCHANGED weberVars

\* a write of the input-stimulation density by code that is not under src/
Stimulate(d) ==
    /\ status = "ok"
    /\ tract.input_density # d
    /\ tract' = [tract EXCEPT !.input_density = d]
    /\ last' = [op |-> "stimulate", input |-> <<d>>, seed |-> NoSeed]
    /\ UNCHANGED <<twin, debug_assertions, status, overflowed>>
    /\ UNCHANGED weberVars

\* ------------------------------------------------- specifications: weber
NextQuantize ==
    /\ (\E x \in RawInputs : Quantize(x)) \/ Requantize
    /\ UNCHANGED steps
NextMeasure ==
    /\ \E m \in Magnitudes : Measure(m)
    /\ UNCHANGED steps

SpecQuantize == InitWeber /\ [][NextQuantize]_vars
SpecMeasure == InitWeber /\ [][NextMeasure]_vars

\* ----------------------------------- specifications: one motor channel
\* the magnitudes of the motor inputs
MotorMagnitudes == {1, 2, 10, 50, 100, 127, 128, 129, 200, 255}
\* one-signal inputs: both polarities at every magnitude, and the zero forms
MotorUnitInputs ==
    {<<Sig(p, m)>> : p \in {-1, 1}, m \in MotorMagnitudes}
        \cup {<<ZeroSignal>>, <<Sig(0, 50)>>, <<Sig(1, 0)>>}

\* motor_tract_amplifies: a clean one-channel motor tract of any gain
AmplifySpec(g) ==
    [TractSpec_new(MotorSkeletal, 1) EXCEPT
        !.gain = Some(g), !.conductivity = Some(255), !.jitter = Some(0),
        !.sensitivity = Some(255), !.elasticity = Some(255)]
InitAmplify ==
    /\ WeberStart
    /\ \E g \in 0 .. 255, debug \in BOOLEAN :
          TractStart(build(AmplifySpec(g)), debug)

\* motor_tract_fatigue_degrades: unity gain, tract.fatigue assigned
InitFatigue ==
    /\ WeberStart
    /\ \E f \in 0 .. 255, debug \in BOOLEAN :
          TractStart([build(AmplifySpec(128)) EXCEPT !.fatigue = f], debug)

NextMotorUnit ==
    /\ \E input \in MotorUnitInputs : TransmitMotor(input, <<42, 0, 0, 0>>)
    /\ UNCHANGED steps

SpecAmplify == InitAmplify /\ [][NextMotorUnit]_vars
SpecFatigue == InitFatigue /\ [][NextMotorUnit]_vars

\* ------------------------------------- specifications: sensory channels
\* raw stimuli: every band on and off a step boundary, both signs, the ends
\* of the i32 range
SensoryValues == {0, 1, -4, 5, 23, -47, 49, 50, -55, 130, 137, 199, 200, -209,
                  210, 500, 999, 1000, -1024, 5013, 10000000,
                  I32Max, -I32Max, I32Min}
SensoryUnitInputs == {<<x>> : x \in SensoryValues}
\* inputs shorter and longer than one channel
SensoryUnityInputs ==
    SensoryUnitInputs \cup {<< >>}
        \cup {<<x, y>> : x \in {0, -47, I32Max}, y \in {0, 137, I32Min}}

\* sensory_tract_weber_quantizes: a clean sensory tract, either receptor mode
UnitySpec(dim, mode) ==
    [TractSpec_new(Proprioceptive, dim) EXCEPT
        !.gain = Some(128), !.conductivity = Some(255), !.jitter = Some(0),
        !.sensitivity = Some(255), !.elasticity = Some(255),
        !.receptor_mode = Some(mode)]
InitUnity ==
    /\ WeberStart
    /\ \E dim \in 0 .. 2, mode \in {Phasic, Tonic}, debug \in BOOLEAN :
          TractStart(build(UnitySpec(dim, mode)), debug)
NextUnity ==
    /\ \E input \in SensoryUnityInputs : TransmitSensory(input, <<42, 0, 0, 0>>)
    /\ UNCHANGED steps
SpecUnity == InitUnity /\ [][NextUnity]_vars

\* sensory_threshold_gates / phasic_still_gates_by_default: a phasic tract
\* without noise and with instant tracking; tract.fatigue assigned
PhasicSpec(g, c, s) ==
    [TractSpec_new(Mechanoreceptive, 1) EXCEPT
        !.gain = Some(g), !.conductivity = Some(c), !.jitter = Some(0),
        !.sensitivity = Some(s), !.elasticity = Some(255)]
InitPhasic ==
    /\ WeberStart
    /\ \E g \in {0, 100, 128, 255}, c \in {0, 128, 255}, f \in {0, 128, 255},
          s \in {0, 128, 180, 254, 255}, debug \in BOOLEAN :
          TractStart([build(PhasicSpec(g, c, s)) EXCEPT !.fatigue = f], debug)
NextPhasic ==
    /\ \E input \in SensoryUnitInputs : TransmitSensory(input, <<42, 0, 0, 0>>)
    /\ UNCHANGED steps
SpecPhasic == InitPhasic /\ [][NextPhasic]_vars

\* tonic_receptor_bypasses_threshold: a tonic tract and a twin that differs
\* from it in sensitivity only, or in receptor mode only
TonicSpec(j, e, s, mode) ==
    [TractSpec_new(Mechanoreceptive, 1) EXCEPT
        !.gain = Some(100), !.conductivity = Some(128), !.jitter = Some(j),
        !.sensitivity = Some(s), !.elasticity = Some(e),
        !.receptor_mode = Some(mode)]
TwinSensitivities == {0, 180, 255}
InitTonicTwin ==
    /\ WeberStart
    /\ \E j \in {0, 128}, e \in {128, 255}, s \in TwinSensitivities,
          debug \in BOOLEAN :
          \E s2 \in TwinSensitivities, mode \in {Phasic, Tonic} :
             /\ (mode = Tonic) = (s2 # s)
             /\ TwinStart(build(TonicSpec(j, e, s, Tonic)),
                          build(TonicSpec(j, e, s2, mode)), debug)
TwinInputs == {<<x>> : x \in {0, 500, -1024, I32Max}}
NextTonicTwin ==
    /\ steps < MaxSteps
    /\ steps' = steps + 1
    /\ \E input \in TwinInputs, seed \in Seeds : TransmitSensoryBoth(input, seed)
SpecTonicTwin == InitTonicTwin /\ [][NextTonicTwin]_vars

\* ------------------------------------------ specification: the whole tract
\* tracts as TractSpec::build makes them: the defaults, a clean tract, a
\* noisy one, a tonic one
Presets(kind, dim) ==
    LET d == TractSpec_new(kind, dim)
    IN {d,
        [d EXCEPT !.conductivity = Some(255), !.jitter = Some(0),
                  !.sensitivity = Some(255), !.elasticity = Some(255)],
        [d EXCEPT !.jitter = Some(255), !.gain = Some(255)],
        [d EXCEPT !.receptor_mode = Some(Tonic), !.elasticity = Some(0)]}
Kinds == {Interoceptive, MotorSkeletal}
Dims == {0, 1, 2}
MotorInputs ==
    {<< >>, <<ZeroSignal>>, <<Sig(1, 200)>>, <<Sig(-1, 40)>>, <<Sig(0, 50)>>,
     <<Sig(1, 255), Sig(-1, 3)>>, <<Sig(-1, 90), ZeroSignal, Sig(1, 7)>>}
SensoryInputs ==
    {<< >>, <<0>>, <<3>>, <<130>>, <<-600>>, <<I32Max>>,
     <<I32Min, 0>>, <<0, 5013, -47>>}

Init ==
    /\ WeberStart
    /\ \E kind \in Kinds, dim \in Dims, debug \in BOOLEAN :
          \E spec \in Presets(kind, dim) : TractStart(build(spec), debug)

Next ==
    /\ steps < MaxSteps
    /\ steps' = steps + 1
    /\ \/ \E input \in MotorInputs, seed \in Seeds : TransmitMotor(input, seed)
       \/ \E input \in SensoryInputs, seed \in Seeds : TransmitSensory(input, seed)

Spec == Init /\ [][Next]_vars

\* ------------------------------------------- specification: channels
\* tracts of dimension 0, 1 and 2 of either direction, fed inputs of 0 to 3
\* entries by either transmit function
ChannelPresets(kind, dim) ==
    LET d == TractSpec_new(kind, dim)
    IN {d, [d EXCEPT !.conductivity = Some(255), !.jitter = Some(0),
                     !.sensitivity = Some(255)]}
ChannelMotorInputs ==
    {<< >>, <<Sig(1, 200)>>, <<Sig(1, 255), Sig(-1, 90)>>,
     <<Sig(-1, 90), ZeroSignal, Sig(1, 7)>>}
ChannelSensoryInputs == {<< >>, <<130>>, <<-600, 5013>>, <<0, 5013, -47>>}
InitChannels ==
    /\ WeberStart
    /\ \E kind \in Kinds, dim \in Dims, debug \in BOOLEAN :
          \E spec \in ChannelPresets(kind, dim) :
             TractStart(build(spec), debug)
NextChannels ==
    /\ steps < MaxSteps
    /\ steps' = steps + 1
    /\ \/ \E input \in ChannelMotorInputs :
             TransmitMotor(input, <<42, 0, 0, 0>>)
       \/ \E input \in ChannelSensoryInputs :
             TransmitSensory(input, <<42, 0, 0, 0>>)
SpecChannels == InitChannels /\ [][NextChannels]_vars

\* ------------------------------------------- specification: sensory noise
\* a tonic tract that carries the quantized input through unchanged (gain
\* 128, conductivity 255, fatigue 0, elasticity 255), so that the output
\* minus the quantized input is the noise of step 4; every jitter 1..255
NoiseSpec(j) ==
    [TractSpec_new(Mechanoreceptive, 1) EXCEPT
        !.gain = Some(128), !.conductivity = Some(255), !.jitter = Some(j),
        !.elasticity = Some(255), !.receptor_mode = Some(Tonic)]
NoiseSeeds == Seeds \cup {<<7, 0, 0, 0>>}
NoiseInputs == {<<1000>>, <<-1000>>}
InitNoise ==
    /\ WeberStart
    /\ \E j \in 1 .. 255 : TractStart(build(NoiseSpec(j)), FALSE)
NextNoise ==
    /\ \E input \in NoiseInputs, seed \in NoiseSeeds :
          TransmitSensory(input, seed)
    /\ UNCHANGED steps
SpecNoise == InitNoise /\ [][NextNoise]_vars

\* ------------------------------------------- specification: motor jitter
\* a one-channel motor tract with conductivity 255 and no recruitment
\* threshold, at jitter 0, below, at and above 200, with and without
\* elasticity smoothing
JitterSpec(j, g, e) ==
    [TractSpec_new(MotorSkeletal, 1) EXCEPT
        !.gain = Some(g), !.conductivity = Some(255), !.jitter = Some(j),
        !.sensitivity = Some(255), !.elasticity = Some(e)]
Jitters == {0, 100, 200, 201, 255}
\* seeds: 42 subtracts the noise, 7 adds it, 8 adds it and flips the
\* polarity at jitter > 200
JitterSeeds == {<<42, 0, 0, 0>>, <<7, 0, 0, 0>>, <<8, 0, 0, 0>>}
JitterInputs == {<<Sig(1, 255)>>, <<Sig(-1, 3)>>, <<Sig(-1, 0)>>}
InitMotorJitter ==
    /\ WeberStart
    /\ \E j \in Jitters, g \in {128, 255}, e \in {128, 255} :
          TractStart(build(JitterSpec(j, g, e)), FALSE)
NextMotorJitter ==
    /\ steps < MaxSteps
    /\ steps' = steps + 1
    /\ \E input \in JitterInputs, seed \in JitterSeeds :
          TransmitMotor(input, seed)
SpecMotorJitter == InitMotorJitter /\ [][NextMotorJitter]_vars

\* ------------------------------------------- specification: adaptation
\* a second config with larger rates and a higher idle threshold
BriskConfig ==
    [myelination_rate |-> 3, demyelination_rate |-> 2,
     jitter_improvement_rate |-> 2, jitter_decay_rate |-> 3,
     fatigue_rate |-> 9, recovery_rate |-> 5,
     strengthening_rate |-> 2, atrophy_rate |-> 4,
     atrophy_delay |-> 50, idle_threshold |-> 20,
     sensitization_rate |-> 2, desensitization_rate |-> 3]
Configs == {DefaultConfig, BriskConfig}
InputDensities == {0, 10, 11, 129}

\* a one-channel motor tract as TractSpec::build makes it, then the fields
\* the tests of adapt.rs assign directly: fatigue, recent_density,
\* lifetime_activations, motor_signals[0]
AdaptTract(c, e, st, f, d, n, sig, id) ==
    LET spec == [TractSpec_new(MotorSkeletal, 1) EXCEPT
                    !.conductivity = Some(c), !.endurance = Some(e),
                    !.strength = Some(st), !.jitter = Some(0),
                    !.elasticity = Some(255)]
    IN WithInputDensity(
          [build(spec) EXCEPT !.fatigue = f, !.recent_density = d,
                              !.lifetime_activations = n,
                              !.motor_signals = <<sig>>,
                              !.motor_prev = <<sig>>], id)
AdaptSignals == {ZeroSignal, Sig(1, 100)}
InitAdapt ==
    /\ WeberStart
    /\ \E c \in {0, 128}, e \in {0, 255}, st \in {0, 2, 255},
          f \in {0, 127}, d \in {0, 9, 101}, n \in {0, 1},
          sig \in AdaptSignals, id \in {0, 129} :
          TractStart(AdaptTract(c, e, st, f, d, n, sig, id), FALSE)
NextAdapt ==
    /\ steps < MaxSteps
    /\ steps' = steps + 1
    /\ \/ \E config \in Configs : Adapt(config)
       \/ \E sig \in AdaptSignals : TransmitMotor(<<sig>>, NoSeed)
       \/ \E d \in InputDensities : Stimulate(d)
SpecAdapt == InitAdapt /\ [][NextAdapt]_vars

\* two tracts that differ in the input-stimulation density only, adapted
\* together
InitInputDensity ==
    /\ WeberStart
    /\ \E f \in {0, 200}, d \in {0, 9, 101, 255}, n \in {0, 1},
          sig \in AdaptSignals, id \in InputDensities,
          id2 \in InputDensities :
          /\ id # id2
          /\ TwinStart(AdaptTract(128, 128, 128, f, d, n, sig, id),
                       AdaptTract(128, 128, 128, f, d, n, sig, id2), FALSE)
NextInputDensity ==
    /\ steps < MaxSteps
    /\ steps' = steps + 1
    /\ \E config \in Configs : AdaptBoth(config)
SpecInputDensity == InitInputDensity /\ [][NextInputDensity]_vars

\* endurance_slows_fatigue: two active tracts, endurance 0 and 255, adapted
\* together with the default config
InitEndurance ==
    /\ WeberStart
    /\ \E f \in 0 .. 254, id \in {0, 129} :
          TwinStart(AdaptTract(128, 0, 128, f, 0, 0, Sig(1, 100), id),
                    AdaptTract(128, 255, 128, f, 0, 0, Sig(1, 100), id),
                    FALSE)
NextEndurance ==
    /\ AdaptBoth(DefaultConfig)
    /\ UNCHANGED steps
SpecEndurance == InitEndurance /\ [][NextEndurance]_vars

\* fatigue_recovers_at_rest: an idle tract adapted tick after tick with the
\* default config.  The caller ticks every tract once per simulation tick,
\* so the tick is weakly fair.
RestTract(e, f, id) ==
    [AdaptTract(2, e, 2, f, 20, 1, ZeroSignal, id)
        EXCEPT !.jitter = 250, !.sensitivity = 3]
InitRest ==
    /\ WeberStart
    /\ \E e \in {0, 64, 255}, f \in 0 .. 255, id \in {0, 5} :
          TractStart(RestTract(e, f, id), FALSE)
NextRest ==
    /\ Adapt(DefaultConfig)
    /\ UNCHANGED steps
SpecRest == InitRest /\ [][NextRest]_vars /\ WF_vars(NextRest)

\* density_tracks_activity: a tract that stays active, or stays idle, adapted
\* tick after tick from every density.
DensityTract(d, sig, id) ==
    [AdaptTract(2, 0, 2, 0, d, 0, sig, id)
        EXCEPT !.jitter = 250, !.sensitivity = 3]
InitDensity ==
    /\ WeberStart
    /\ \E d \in 0 .. 255, sig \in AdaptSignals, id \in {0, 5} :
          TractStart(DensityTract(d, sig, id), FALSE)
NextDensity ==
    /\ Adapt(DefaultConfig)
    /\ UNCHANGED steps
SpecDensity == InitDensity /\ [][NextDensity]_vars /\ WF_vars(NextDensity)

\* ------------------------------------------- specification: stimulation
\* the body of the loop of stimulated_tract_myelinates:
\* tract.transmit_motor(&input, seed); adapt_tract(&mut tract, &config)
TransmitThenAdapt(input, seed, config) ==
    /\ status = "ok"
    /\ LET r == transmit_motor(tract, input, seed, debug_assertions)
       IN /\ tract' = IF r.panicked THEN r.tract
                      ELSE adapt_tract(r.tract, config)
          /\ status' = IF r.panicked THEN "panic" ELSE "ok"
          /\ overflowed' = r.overflowed
    /\ last' = [op |-> "transmit_then_adapt", input |-> input, seed |-> seed]
    /\ UNCHANGED <<twin, debug_assertions>>
    /\ UNCHANGED weberVars

\* for i in 0..30
StimulationTicks == 30
\* a signal the default recruitment threshold gates out, and one it passes
StimulationInputs == {<<Sig(1, 100)>>, <<Sig(1, 255)>>}
\* a motor tract at constructor defaults; the constructor under src/ gives
\* input_density no value, so any is taken
InitStimulation ==
    /\ WeberStart
    /\ \E id \in InputDensities :
          TractStart(WithInputDensity(new_motor(MotorSkeletal, 1), id), FALSE)
\* the same input on every tick, any seed
NextStimulation ==
    /\ steps < StimulationTicks
    /\ steps' = steps + 1
    /\ \E input \in StimulationInputs, seed \in Seeds :
          /\ last.op = "new" \/ last.input = input
          /\ TransmitThenAdapt(input, seed, DefaultConfig)
SpecStimulation == InitStimulation /\ [][NextStimulation]_vars

\* ------------------------------------------- specification: motor decay
\* a clean one-channel motor tract that has carried Signal{p, m} with
\* elasticity 255, then has its elasticity and jitter assigned (both are pub
\* fields), and from then on is fed zero signals
DrivenMotor(e, j, p, m) ==
    LET t0 == build(JitterSpec(0, 128, 255))
        t1 == transmit_motor(t0, <<Sig(p, m)>>, NoSeed, FALSE).tract
    IN [t1 EXCEPT !.elasticity = e, !.jitter = j]
DecayElasticities == {0, 1, 2, 128, 254, 255}
\* the zero forms of a signal: polarity 0, magnitude 0, or both
ZeroInputs == {<<ZeroSignal>>, <<Sig(1, 0)>>, <<Sig(0, 50)>>}
InitDecay ==
    /\ WeberStart
    /\ \E e \in DecayElasticities, j \in {0, 255}, p \in {-1, 1},
          m \in {1, 2, 3, 100, 200, 255} :
          TractStart(DrivenMotor(e, j, p, m), FALSE)
NextDecay ==
    /\ \E input \in ZeroInputs : TransmitMotor(input, <<42, 0, 0, 0>>)
    /\ UNCHANGED steps
\* sustained zero input: the caller transmits on every tick
SpecDecay == InitDecay /\ [][NextDecay]_vars /\ WF_vars(NextDecay)

\* ------------------------------------------- specification: smoothing
\* a pass-through tonic sensory tract that has carried x with elasticity
\* 255, then has its elasticity assigned
DrivenSensory(e, x) ==
    LET t0 == build(NoiseSpec(0))
        t1 == transmit_sensory(t0, <<x>>, NoSeed, FALSE).tract
    IN [t1 EXCEPT !.elasticity = e]
SmoothElasticities == {0, 1, 128, 254, 255}
SmoothMotorInputs == {<<Sig(p, m)>> : p \in {-1, 1}, m \in {1, 50, 255}}
SmoothSensoryInputs == {<<5>>, <<-700>>, <<I32Max>>, <<I32Min>>}
InitSmooth ==
    /\ WeberStart
    /\ \E e \in SmoothElasticities :
          \/ \E p \in {-1, 1}, m \in {1, 100, 255} :
                TractStart(DrivenMotor(e, 0, p, m), FALSE)
          \/ \E x \in {1000, -1000, I32Max, I32Min} :
                TractStart(DrivenSensory(e, x), FALSE)
NextSmooth ==
    /\ steps < MaxSteps
    /\ steps' = steps + 1
    /\ \/ /\ is_efferent(tract.kind)
          /\ \E input \in SmoothMotorInputs : TransmitMotor(input, NoSeed)
       \/ /\ is_afferent(tract.kind)
          /\ \E input \in SmoothSensoryInputs : TransmitSensory(input, NoSeed)
SpecSmooth == InitSmooth /\ [][NextSmooth]_vars

\* ------------------------------------------- specification: disuse
\* a clean one-channel motor tract from the builder, driven by any
\* interleaving of transmit_motor calls (a signal until the tract has been
\* active on MaxUses ticks, or silence) and adapt ticks; steps counts the
\* calls made
DisuseTract == WithInputDensity(build(JitterSpec(0, 128, 255)), 0)
InitDisuse ==
    /\ WeberStart
    /\ TractStart(DisuseTract, FALSE)
NextDisuse ==
    /\ steps < MaxTicks
    /\ steps' = steps + 1
    /\ \/ Adapt(DefaultConfig)
       \/ /\ tract.lifetime_activations < MaxUses
          /\ TransmitMotor(<<Sig(1, 100)>>, NoSeed)
       \/ TransmitMotor(<<ZeroSignal>>, NoSeed)
SpecDisuse == InitDisuse /\ [][NextDisuse]_vars

\* ======================================================== claims: weber.rs
\* |x| as a non-positive integer (every i32 has one; i32::MIN has no |x|)
NegAbs(x) == IF x > 0 THEN -x ELSE x
\* weber_step(|x|); |i32::MIN| = 2^31 lies in the open-ended last band, as
\* i32::MAX does
StepOfAbs(x) == weber_step(IF x = I32Min THEN I32Max ELSE -NegAbs(x))
OnBand200Edge(x) == -209 <= NegAbs(x) /\ NegAbs(x) <= -200

\* C1 (as stated): quantizing a quantized value changes nothing, for every
\* i32 x: weber_quantize(weber_quantize(x)) = weber_quantize(x).
C1_Idempotent == weber_quantize(quantized) = quantized

\* C1 (amended): weber_quantize(weber_quantize(x)) = weber_quantize(x) for
\* every i32 x with |x| outside 200..209 (there the result, +-195, lies in
\* the step-10 band and is quantized again to +-190).
C1_IdempotentOffBand200Edge ==
    ~OnBand200Edge(raw) => weber_quantize(quantized) = quantized

C1_Witness == raw = 1024 /\ quantized = 1000 /\ weber_quantize(1000) = 1000

\* C3: the magnitude of weber_quantize(x) is the largest multiple of
\* s = weber_step(|x|) not exceeding |x|; zero maps to zero, the sign of x is
\* kept, and weber_quantize(-x) = -weber_quantize(x) for x # 0, x # i32::MIN.
C3_LargestMultipleSigned ==
    LET s == StepOfAbs(raw)
        nx == NegAbs(raw)
        nq == NegAbs(quantized)
    IN /\ nq % s = 0
       /\ nx <= nq
       /\ nq - nx < s
       /\ raw = 0 => quantized = 0
       /\ raw > 0 => quantized >= 0
       /\ raw < 0 => quantized <= 0
       /\ (raw # 0 /\ raw # I32Min) => weber_quantize(-raw) = -quantized

C3_Witness == raw = -137 /\ quantized = -130 /\ weber_quantize(137) = 130

CleanMotor(t) ==
    /\ is_efferent(t.kind)
    /\ t.conductivity = 255 /\ t.sensitivity = 255 /\ t.elasticity = 255
    /\ t.jitter = 0
\* the last call was transmit_motor with a one-signal input of nonzero
\* polarity and returned
MotorSent == last.op = "transmit_motor" /\ status = "ok" /\ Len(last.input) = 1
MotorSentNonzero == MotorSent /\ last.input[1].polarity # 0

\* C4 (as stated): on a motor tract with conductivity = sensitivity =
\* elasticity = 255, jitter = 0 and fatigue = 0, for every gain and every
\* input of nonzero polarity and magnitude m >= 1 the output magnitude is
\* m * gain / 128, whatever the previous output was.
C4_AmplifyExact ==
    (CleanMotor(tract) /\ tract.fatigue = 0 /\ MotorSentNonzero
        /\ last.input[1].magnitude >= 1)
    => tract.motor_signals[1].magnitude
           = (last.input[1].magnitude * tract.gain) \div 128

\* C4 (amended): under the same configuration the output magnitude is
\* min(255, m * gain / 128): the u8 clamp caps it at 255.
C4_AmplifyClamped ==
    (CleanMotor(tract) /\ tract.fatigue = 0 /\ MotorSentNonzero
        /\ last.input[1].magnitude >= 1)
    => tract.motor_signals[1].magnitude
           = Min(255, (last.input[1].magnitude * tract.gain) \div 128)

C4_Witness ==
    /\ CleanMotor(tract) /\ tract.fatigue = 0 /\ MotorSentNonzero
    /\ tract.gain = 200 /\ last.input[1].magnitude = 100
    /\ tract.motor_signals[1].magnitude = 156

\* C5: with gain = 128, conductivity = 255, jitter = 0, sensitivity = 255 and
\* elasticity = 255, for every fatigue f and every nonzero-polarity input of
\* magnitude m the output magnitude is m * (255 - f) / 255.
C5_FatigueProportional ==
    (CleanMotor(tract) /\ tract.gain = 128 /\ MotorSentNonzero)
    => tract.motor_signals[1].magnitude
           = (last.input[1].magnitude * (255 - tract.fatigue)) \div 255

C5_Witness ==
    /\ CleanMotor(tract) /\ tract.gain = 128 /\ MotorSentNonzero
    /\ tract.fatigue = 128 /\ last.input[1].magnitude = 200
    /\ tract.motor_signals[1].magnitude = 99

\* ================================================ claims: transmit_sensory
SensorySent == last.op = "transmit_sensory" /\ status = "ok"
UnityConfig(t) ==
    /\ is_afferent(t.kind)
    /\ t.gain = 128 /\ t.conductivity = 255 /\ t.fatigue = 0 /\ t.jitter = 0
    /\ t.sensitivity = 255 /\ t.elasticity = 255

\* C6: with gain = 128, conductivity = 255, fatigue = 0, jitter = 0,
\* sensitivity = 255 and elasticity = 255, transmit_sensory writes
\* weber_quantize(input[i]) to every channel i < min(len(input), dim), in
\* either receptor mode.
C6_UnityQuantizes ==
    (UnityConfig(tract) /\ SensorySent)
    => \A i \in 1 .. Min(Len(last.input), tract.dim) :
          tract.sensory_signals[i] = weber_quantize(last.input[i])

C6_Witness ==
    /\ UnityConfig(tract) /\ SensorySent
    /\ tract.receptor_mode = Tonic /\ tract.dim = 2
    /\ last.input = <<-47, 137>>
    /\ tract.sensory_signals = <<-45, 130>>

PhasicConfig(t) ==
    /\ is_afferent(t.kind) /\ t.dim = 1
    /\ t.receptor_mode = Phasic /\ t.jitter = 0 /\ t.elasticity = 255
\* the value after gain, conductivity and fatigue scaling of the last input
LastScaled == SensoryScaled(tract, weber_quantize(last.input[1]))
PhasicLimit(t) == (255 - t.sensitivity) * 4
PhasicSent ==
    /\ PhasicConfig(tract) /\ SensorySent /\ Len(last.input) = 1
    /\ weber_quantize(last.input[1]) # 0

\* C7 (as stated): on a phasic tract with jitter = 0 and elasticity = 255,
\* for a channel whose quantized input is nonzero and whose scaled value is
\* v, the output is 0 when |v| < (255 - sensitivity) * 4 and is v, nonzero,
\* when |v| >= (255 - sensitivity) * 4.
C7_PhasicGateExact ==
    PhasicSent =>
        IF WAbsLessInt(LastScaled, PhasicLimit(tract))
        THEN tract.sensory_signals[1] = 0
        ELSE /\ WFitsI32(LastScaled)
             /\ tract.sensory_signals[1] = WToInt(LastScaled)
             /\ tract.sensory_signals[1] # 0

\* C7 (amended): the output is 0 when |v| < (255 - sensitivity) * 4, and
\* when |v| >= (255 - sensitivity) * 4 it is v clamped to the i32 range,
\* which is nonzero unless v = 0 (possible only with sensitivity = 255).
C7_PhasicGateClamped ==
    PhasicSent =>
        IF WAbsLessInt(LastScaled, PhasicLimit(tract))
        THEN tract.sensory_signals[1] = 0
        ELSE /\ tract.sensory_signals[1] = WClampI32(LastScaled)
             /\ (~WIsZero(LastScaled) => tract.sensory_signals[1] # 0)
             /\ (WIsZero(LastScaled) => tract.sensitivity = 255)

C7_Witness ==
    /\ PhasicSent
    /\ tract.sensitivity = 180 /\ tract.gain = 100 /\ tract.conductivity = 128
    /\ tract.fatigue = 0
    /\ last.input[1] = 500
    /\ LastScaled = WFromInt(193)
    /\ tract.sensory_signals[1] = 0

\* the value that reaches the threshold step for the last one-value input:
\* scaled, then jittered with the call's seed
LastJittered ==
    SensoryJitter(tract, SensoryScaled(tract, weber_quantize(last.input[1])),
                  last.seed).val
SameButSensitivity(a, b) ==
    [a EXCEPT !.sensitivity = 0, !.sensory_signals = << >>,
              !.sensory_prev = << >>]
        = [b EXCEPT !.sensitivity = 0, !.sensory_signals = << >>,
                    !.sensory_prev = << >>]
SameButMode(a, b) ==
    [a EXCEPT !.receptor_mode = Phasic, !.sensory_signals = << >>,
              !.sensory_prev = << >>]
        = [b EXCEPT !.receptor_mode = Phasic, !.sensory_signals = << >>,
                    !.sensory_prev = << >>]

\* C8: two tonic sensory tracts that differ in sensitivity only, given the
\* same input and seed, end transmit_sensory with the same output and
\* previous-output buffers; and a value that a phasic tract of the same
\* configuration zeroes for being below (255 - sensitivity) * 4 passes
\* through the tonic tract unchanged.
C8_TonicIgnoresSensitivity ==
    (tract.receptor_mode = Tonic /\ last.op = "transmit_sensory") =>
        /\ (twin.receptor_mode = Tonic /\ SameButSensitivity(tract, twin))
              => /\ tract.sensory_signals = twin.sensory_signals
                 /\ tract.sensory_prev = twin.sensory_prev
        /\ (/\ twin.receptor_mode = Phasic /\ SameButMode(tract, twin)
            /\ status = "ok" /\ tract.elasticity = 255
            /\ weber_quantize(last.input[1]) # 0
            /\ WAbsLessInt(LastJittered, PhasicLimit(twin)))
              => /\ twin.sensory_signals[1] = 0
                 /\ tract.sensory_signals[1] = WClampI32(LastJittered)

\* both tracts tonic, sensitivities 255 and 0, and an output that a phasic
\* tract of sensitivity 0 would have zeroed
C8_Witness ==
    /\ last.op = "transmit_sensory" /\ status = "ok"
    /\ tract.receptor_mode = Tonic /\ twin.receptor_mode = Tonic
    /\ tract.sensitivity = 255 /\ twin.sensitivity = 0
    /\ tract.jitter = 0 /\ tract.elasticity = 255
    /\ last.input = <<500>>
    /\ tract.sensory_signals = <<193>> /\ twin.sensory_signals = <<193>>

\* the tonic tract passes what its phasic twin zeroes
C8_WitnessPhasicTwin ==
    /\ last.op = "transmit_sensory" /\ status = "ok"
    /\ tract.receptor_mode = Tonic /\ twin.receptor_mode = Phasic
    /\ tract.sensitivity = 180 /\ twin.sensitivity = 180
    /\ tract.jitter = 0 /\ tract.elasticity = 255
    /\ last.input = <<500>>
    /\ tract.sensory_signals = <<193>> /\ twin.sensory_signals = <<0>>

\* ===================================================== claims: whole tract
\* C9: no arithmetic step of transmit_motor or transmit_sensory (the
\* zero-input decay of the previous output included) leaves the integer type
\* it is computed in, for every input, seed, property values and every
\* previous-output buffer reachable by earlier transmissions.
C9_NoOverflow == ~overflowed

\* the call just made is transmit_motor on an afferent tract or
\* transmit_sensory on an efferent one
KindMismatch ==
    \/ (last'.op = "transmit_motor" /\ is_afferent(tract.kind))
    \/ (last'.op = "transmit_sensory" /\ is_efferent(tract.kind))

\* C10: transmit_motor on an afferent tract, or transmit_sensory on an
\* efferent tract, always ends in a fatal failure, never returns normally,
\* and does not modify the tract, for every input and every dimension.
C10_KindMismatchFailsFast ==
    [][(steps' = steps + 1 /\ KindMismatch)
          => (status' = "panic" /\ tract' = tract)]_vars

\* ====================================================== claims: adapt.rs
\* the last call was adapt_tract
Adapted == last.op = "adapt"
Before == last.input.before
UsedConfig == last.input.config

\* C11: every adapt call on an active tract sets conductivity to
\* min(255, conductivity + myelination_rate), so conductivity never
\* decreases on an active tick.
C11_ActiveMyelinates ==
    (Adapted /\ is_active(Before)) =>
        /\ tract.conductivity
              = SatAddU8(Before.conductivity, UsedConfig.myelination_rate)
        /\ tract.conductivity >= Before.conductivity

\* the fields FiberTract declares (tract.rs:140-201)
DataModel(t) == [f \in DOMAIN t \ {"input_density"} |-> t[f]]

\* C12: the result of adapt is a function of the config and of the tract's
\* data-model state alone: two tracts equal in every declared field end the
\* tick equal in every declared field, whatever input-stimulation density
\* is tracked beside them.
C12_ActivityAlone ==
    (Adapted /\ DataModel(Before) = DataModel(last.input.twin_before))
        => DataModel(tract) = DataModel(twin)

\* C13: under the default config, of two active tracts that are identical
\* (same initial fatigue < 255) except for endurance 0 against 255, the
\* endurance-255 tract has strictly lower fatigue after every equal number
\* N >= 1 of adapt ticks.
C13_EnduranceSlowsFatigue ==
    (Adapted /\ tract.endurance = 0 /\ twin.endurance = 255)
        => twin.fatigue < tract.fatigue

\* twenty ticks from fatigue 0, as in endurance_slows_fatigue
C13_Witness ==
    /\ Adapted /\ tract.endurance = 0 /\ twin.endurance = 255
    /\ is_active(tract) /\ is_active(twin)
    /\ tract.lifetime_activations = 20 /\ twin.lifetime_activations = 20
    /\ tract.fatigue = 40 /\ twin.fatigue = 0

\* C14: under the default config every adapt call on an idle tract lowers
\* fatigue by min(fatigue, recovery_rate + endurance / 64), strictly when
\* fatigue > 0, and never raises it; under sustained idleness fatigue
\* eventually is 0 and stays 0.
C14_IdleTickRecovers ==
    (Adapted /\ ~is_active(Before)) =>
        /\ tract.fatigue = Before.fatigue
              - Min(Before.fatigue,
                    UsedConfig.recovery_rate + Before.endurance \div 64)
        /\ Before.fatigue > 0 => tract.fatigue < Before.fatigue
        /\ tract.fatigue <= Before.fatigue
        /\ tract.fatigue >= 0
C14_FatigueRecovers ==
    /\ []C14_IdleTickRecovers
    /\ <>[](tract.fatigue = 0)

\* fatigue 200, endurance 64: one idle tick takes 3 + 1
C14_Witness ==
    /\ Adapted /\ ~is_active(Before)
    /\ Before.fatigue = 200 /\ Before.endurance = 64
    /\ tract.fatigue = 196

\* C15: recent_density stays in 0..255; a tick on an active tract raises it
\* by max(1, (255 - d) / 16) capped at 255, strictly unless it is 255; a tick
\* on an idle tract lowers it by max(1, d / 16) floored at 0, strictly unless
\* it is 0; sustained activity eventually holds it at 255 and sustained
\* idleness at 0.
C15_TickMovesDensity ==
    Adapted =>
        LET d == Before.recent_density
        IN /\ tract.recent_density \in 0 .. 255
           /\ is_active(Before) =>
                 /\ tract.recent_density
                       = Min(255, d + Max(1, (255 - d) \div 16))
                 /\ d < 255 => tract.recent_density > d
           /\ ~is_active(Before) =>
                 /\ tract.recent_density = Max(0, d - Max(1, d \div 16))
                 /\ d > 0 => tract.recent_density < d
C15_DensityTracksActivity ==
    /\ []C15_TickMovesDensity
    /\ <>[](tract.recent_density = IF is_active(tract) THEN 255 ELSE 0)

\* density 250 on an active tract: (255 - 250) / 16 is 0, the step is 1
C15_Witness ==
    /\ Adapted /\ is_active(Before)
    /\ Before.recent_density = 250
    /\ tract.recent_density = 251

\* C16: adapt lowers strength only on an idle tick whose starting density is
\* 0 and whose lifetime_activations is above 0, and then by atrophy_rate
\* saturating at 0; an idle tick on a tract with lifetime_activations 0
\* leaves strength (and the count) alone; an idle tick on a used tract at
\* density 0 with strength > 0 and atrophy_rate > 0 lowers strength, and no
\* idle tick raises it.
C16_AtrophyNeedsPriorUse ==
    Adapted =>
        LET idle == ~is_active(Before)
            atrophy == /\ idle
                       /\ Before.recent_density = 0
                       /\ Before.lifetime_activations > 0
        IN /\ tract.strength < Before.strength => atrophy
           /\ atrophy =>
                 tract.strength
                    = Max(0, Before.strength - UsedConfig.atrophy_rate)
           /\ (idle /\ Before.lifetime_activations = 0) =>
                 /\ tract.strength = Before.strength
                 /\ tract.lifetime_activations = 0
           /\ (atrophy /\ Before.strength > 0 /\ UsedConfig.atrophy_rate > 0)
                 => tract.strength < Before.strength
           /\ idle => tract.strength <= Before.strength

\* a used tract at density 0 loses one unit of strength on an idle tick
C16_Witness ==
    /\ Adapted /\ ~is_active(Before)
    /\ Before.recent_density = 0 /\ Before.lifetime_activations = 1
    /\ UsedConfig = DefaultConfig
    /\ Before.strength = 2 /\ tract.strength = 1

\* a never-used tract at density 0 keeps its strength on an idle tick
C16_WitnessNeverUsed ==
    /\ Adapted /\ ~is_active(Before)
    /\ Before.recent_density = 0 /\ Before.lifetime_activations = 0
    /\ Before.strength = 2 /\ tract.strength = 2

\* ======================================================== claims: channels
\* the buffers a transmit call writes, and the value of a silent channel
CurrentBuffer(t, op) ==
    IF op = "transmit_motor" THEN t.motor_signals ELSE t.sensory_signals
PreviousBuffer(t, op) ==
    IF op = "transmit_motor" THEN t.motor_prev ELSE t.sensory_prev
SilentChannel(op) == IF op = "transmit_motor" THEN ZeroSignal ELSE 0
Transmit(t, op, input, seed, debug) ==
    IF op = "transmit_motor"
    THEN transmit_motor(t, input, seed, debug)
    ELSE transmit_sensory(t, input, seed, debug)

\* C18: a transmit_motor or transmit_sensory call that returns leaves both
\* of its buffers with length dim and every channel past the end of the
\* input zero in both; the result is the one the first min(len(input), dim)
\* entries alone give; a tract of dimension 0 is unchanged and inactive.
C18_ChannelCoverage ==
    [][(/\ last'.op \in {"transmit_motor", "transmit_sensory"}
        /\ status' = "ok")
       => LET op == last'.op
              input == last'.input
              cut == SubSeq(input, 1, Min(Len(input), tract.dim))
          IN /\ Len(CurrentBuffer(tract', op)) = tract'.dim
             /\ Len(PreviousBuffer(tract', op)) = tract'.dim
             /\ tract'.dim = tract.dim
             /\ \A i \in 1 .. tract'.dim :
                   i > Len(input) =>
                      /\ CurrentBuffer(tract', op)[i] = SilentChannel(op)
                      /\ PreviousBuffer(tract', op)[i] = SilentChannel(op)
             /\ tract' = Transmit(tract, op, cut, last'.seed,
                                  debug_assertions).tract
             /\ tract.dim = 0 => (tract' = tract /\ ~is_active(tract'))
      ]_vars

\* a one-entry input on a two-channel motor tract: channel 0 carries the
\* signal, channel 1 is silent
C18_Witness ==
    /\ last.op = "transmit_motor" /\ status = "ok"
    /\ tract.dim = 2 /\ Len(last.input) = 1
    /\ tract.motor_signals[1] # ZeroSignal
    /\ tract.motor_signals[2] = ZeroSignal
    /\ tract.motor_prev[2] = ZeroSignal

\* a three-entry input on a two-channel sensory tract: both channels carry
\* a value, the third entry goes nowhere
C18_WitnessLongInput ==
    /\ last.op = "transmit_sensory" /\ status = "ok"
    /\ tract.dim = 2 /\ Len(last.input) = 3
    /\ Len(tract.sensory_signals) = 2
    /\ tract.sensory_signals[2] # 0

\* ======================================================== claims: jitter
\* the noise a sensory call added to channel 0 of a pass-through tract
LastSensoryNoise == tract.sensory_signals[1] - weber_quantize(last.input[1])

\* C19: for every seed and every jitter j in 1..255 the noise that
\* transmit_sensory adds to a channel lies in [-(j / 2), +(j / 2)].
C19_SensoryNoiseBounded ==
    (last.op = "transmit_sensory" /\ status = "ok" /\ tract.jitter >= 1) =>
        /\ LastSensoryNoise >= -(tract.jitter \div 2)
        /\ LastSensoryNoise <= tract.jitter \div 2

\* the magnitude that reaches the jitter stage of a motor channel
BeforeJitter(t, sig) ==
    MotorFatigue(t, MotorConductivity(t, MotorGain(t, sig.magnitude)))
NonzeroSignal(sig) == sig.polarity # 0 /\ sig.magnitude # 0
AbsDiff(a, b) == IF a >= b THEN a - b ELSE b - a

\* the parts of C20 that do not speak of polarity: the noise added at the
\* jitter stage is at most jitter / 4 in absolute value and the noisy
\* magnitude is within [0, 512]; on a tract that passes magnitudes through
\* (gain 128, elasticity 255) the output is within jitter / 4 of the input;
\* at jitter 0 every seed gives the same tract.
MotorNoiseBounded ==
    (last'.op = "transmit_motor" /\ status' = "ok") =>
       LET sig == last'.input[1]
           out == tract'.motor_signals[1]
           quarter == tract.jitter \div 4
       IN /\ NonzeroSignal(sig) =>
                LET m == BeforeJitter(tract, sig)
                    r == MotorJitter(tract, m, sig.polarity, last'.seed)
                IN /\ r.mag \in 0 .. 512
                   /\ AbsDiff(r.mag, m) <= quarter
          /\ (NonzeroSignal(sig) /\ tract.gain = 128 /\ tract.elasticity = 255)
                => AbsDiff(out.magnitude, sig.magnitude) <= quarter
          /\ tract.jitter = 0 =>
                \A s \in JitterSeeds :
                   tract' = transmit_motor(tract, last'.input, s,
                                           debug_assertions).tract

\* C20, as stated: the noise bounds above, and whenever jitter <= 200 every
\* nonzero output channel carries the polarity of its input signal.
C20_PolarityOfInput ==
    [][/\ MotorNoiseBounded
       /\ (last'.op = "transmit_motor" /\ status' = "ok") =>
             ((tract.jitter <= 200 /\ tract'.motor_signals[1].magnitude # 0)
                 => tract'.motor_signals[1].polarity = last'.input[1].polarity)
      ]_vars

\* C20, amended: the noise bounds above, and whenever jitter <= 200 every
\* nonzero output channel whose input signal is nonzero carries the polarity
\* of its input signal (a channel whose input is zero decays and keeps the
\* polarity of its previous output).
C20_PolarityOfNonzeroInput ==
    [][/\ MotorNoiseBounded
       /\ (last'.op = "transmit_motor" /\ status' = "ok") =>
             ((/\ tract.jitter <= 200
               /\ NonzeroSignal(last'.input[1])
               /\ tract'.motor_signals[1].magnitude # 0)
                 => tract'.motor_signals[1].polarity = last'.input[1].polarity)
      ]_vars

\* jitter 100, seed 42: the noise is 18 (the noise state modulo 26), subtracted
C20_Witness ==
    /\ last.op = "transmit_motor" /\ status = "ok"
    /\ tract.jitter = 100 /\ tract.gain = 128 /\ tract.elasticity = 255
    /\ last.input = <<Sig(1, 255)>> /\ last.seed = <<42, 0, 0, 0>>
    /\ tract.motor_signals[1] = Sig(1, 237)

\* jitter 255, noise state 8: the polarity is flipped
C20_WitnessFlip ==
    /\ last.op = "transmit_motor" /\ status = "ok"
    /\ tract.jitter = 255
    /\ last.input = <<Sig(1, 255)>> /\ last.seed = <<8, 0, 0, 0>>
    /\ tract.motor_signals[1].polarity = -1

\* ======================================================== claims: smoothing
\* C21: on a zero input transmit_motor writes magnitude
\* prev * (255 - elasticity) / 255 with the previous polarity, the zero
\* signal once that magnitude is 0; with elasticity >= 1 the magnitude
\* strictly decreases while nonzero, the polarity never changes before the
\* zero signal, and under sustained zero input the channel reaches the zero
\* signal and stays there.
DecayStep ==
    (last'.op = "transmit_motor" /\ status' = "ok") =>
       LET prev == tract.motor_prev[1]
           out == tract'.motor_signals[1]
           m == (prev.magnitude * (255 - tract.elasticity)) \div 255
       IN /\ out = IF m = 0 THEN ZeroSignal
                   ELSE [polarity |-> prev.polarity, magnitude |-> m]
          /\ (tract.elasticity >= 1 /\ prev.magnitude > 0)
                => out.magnitude < prev.magnitude
          /\ out # ZeroSignal => out.polarity = prev.polarity
          /\ prev = ZeroSignal => out = ZeroSignal
C21_DecaysToSilence ==
    /\ [][DecayStep]_vars
    /\ (tract.elasticity >= 1) ~> [](tract.motor_signals[1] = ZeroSignal)

\* elasticity 128: a channel that carried (-1, 200) decays to (-1, 99)
C21_Witness ==
    /\ last.op = "transmit_motor" /\ status = "ok"
    /\ last.input = <<Sig(0, 50)>>
    /\ tract.elasticity = 128
    /\ twin.motor_signals[1] = Sig(-1, 200)
    /\ tract.motor_signals[1] = Sig(-1, 99)

\* the target of the smoothing stage of a jitter-free channel
MotorTarget(t, sig) == Min(MotorRecruit(t, BeforeJitter(t, sig)), 255)
SensoryTarget(t, x) ==
    WClampI32(SensoryThreshold(t, SensoryScaled(t, weber_quantize(x))))
Between(out, a, b) == Min(a, b) <= out /\ out <= Max(a, b)

\* C22: for a nonzero input the new output of transmit_motor (magnitude) and
\* of transmit_sensory (value) is prev + (target - prev) * elasticity / 255
\* with truncating division; it lies between the previous output and the
\* target inclusive, equals the target at elasticity 255 and the previous
\* output at elasticity 0.
C22_SmoothingNeverOvershoots ==
    [][/\ (/\ last'.op = "transmit_motor" /\ status' = "ok"
           /\ NonzeroSignal(last'.input[1])) =>
             LET prev == tract.motor_prev[1].magnitude
                 target == MotorTarget(tract, last'.input[1])
                 out == tract'.motor_signals[1].magnitude
             IN /\ out = prev
                      + TruncDiv((target - prev) * tract.elasticity, 255)
                /\ Between(out, prev, target)
                /\ tract.elasticity = 255 => out = target
                /\ tract.elasticity = 0 => out = prev
       /\ (/\ last'.op = "transmit_sensory" /\ status' = "ok"
           /\ weber_quantize(last'.input[1]) # 0) =>
             LET prev == tract.sensory_prev[1]
                 target == SensoryTarget(tract, last'.input[1])
                 out == tract'.sensory_signals[1]
             IN /\ WFromInt(out)
                      = WAdd(WFromInt(prev),
                             WDivSmall(WMulSmall(WSub(WFromInt(target),
                                                      WFromInt(prev)),
                                                 tract.elasticity), 255))
                /\ Between(out, prev, target)
                /\ tract.elasticity = 255 => out = target
                /\ tract.elasticity = 0 => out = prev
      ]_vars

\* elasticity 128, previous magnitude 100, target 255: 100 + 155 * 128 / 255
C22_Witness ==
    /\ last.op = "transmit_motor" /\ status = "ok" /\ steps = 1
    /\ tract.elasticity = 128
    /\ twin.motor_signals[1] = Sig(1, 100)
    /\ last.input = <<Sig(1, 255)>>
    /\ tract.motor_signals[1] = Sig(1, 177)

\* a sensory channel moving from i32::MAX toward i32::MIN at elasticity 128
C22_WitnessSensory ==
    /\ last.op = "transmit_sensory" /\ status = "ok" /\ steps = 1
    /\ tract.elasticity = 128
    /\ twin.sensory_signals[1] = weber_quantize(I32Max)
    /\ last.input = <<I32Min>>
    /\ tract.sensory_signals[1] < 0
    /\ tract.sensory_signals[1] > weber_quantize(I32Min)

\* ======================================================== claims: adapt.rs
\* C23: an adapt tick on an active tract lowers jitter by
\* jitter_improvement_rate (saturating at 0) exactly when the rolling density
\* exceeds 128 and leaves it unchanged otherwise; it never raises jitter.
C23_PracticeLowersJitter ==
    (Adapted /\ is_active(Before)) =>
        /\ tract.jitter
              = IF Before.recent_density > 128
                THEN SatSubU8(Before.jitter, UsedConfig.jitter_improvement_rate)
                ELSE Before.jitter
        /\ tract.jitter <= Before.jitter

\* C24: an adapt tick on an idle tract lowers conductivity by
\* demyelination_rate and raises jitter by jitter_decay_rate (saturating)
\* exactly when the rolling density at the start of the tick is below
\* idle_threshold, and leaves both unchanged otherwise.
C24_DisuseDecays ==
    (Adapted /\ ~is_active(Before)) =>
        IF Before.recent_density < UsedConfig.idle_threshold
        THEN /\ tract.conductivity
                   = SatSubU8(Before.conductivity, UsedConfig.demyelination_rate)
             /\ tract.jitter
                   = SatAddU8(Before.jitter, UsedConfig.jitter_decay_rate)
        ELSE /\ tract.conductivity = Before.conductivity
             /\ tract.jitter = Before.jitter

\* C25: an adapt tick on an active tract raises strength by
\* strengthening_rate (saturating at 255) exactly when the fatigue after
\* this tick's accrual exceeds 128 and the rolling density read at the start
\* of the tick exceeds 100; otherwise it leaves strength unchanged; it never
\* lowers strength.
C25_TrainingCondition ==
    (Adapted /\ is_active(Before)) =>
        /\ tract.strength
              = IF tract.fatigue > 128 /\ Before.recent_density > 100
                THEN Min(255, Before.strength + UsedConfig.strengthening_rate)
                ELSE Before.strength
        /\ tract.strength >= Before.strength

\* fatigue 127 accrues to 129 on this tick, density 101: strength 2 -> 3
C25_Witness ==
    /\ Adapted /\ is_active(Before)
    /\ UsedConfig = DefaultConfig
    /\ Before.fatigue = 127 /\ tract.fatigue = 129
    /\ Before.recent_density = 101
    /\ Before.strength = 2 /\ tract.strength = 3

\* C26: strength is not reduced until the tract has been idle on at least
\* atrophy_delay consecutive adapt ticks: a tick that lowers strength comes
\* after more than atrophy_delay calls.
C26_AtrophyWaits ==
    (Adapted /\ tract.strength < Before.strength) =>
        steps > UsedConfig.atrophy_delay

\* C27: a motor tract at constructor defaults that is given a nonzero signal
\* and adapted with the default config on each of 30 consecutive ticks ends
\* with conductivity and sensitivity above their initial values (twin is the
\* tract as constructed).
C27_StimulationMyelinates ==
    (steps = StimulationTicks /\ status = "ok") =>
        /\ tract.conductivity > twin.conductivity
        /\ tract.sensitivity > twin.sensitivity

\* the fields an adapt call is said to leave alone
AdaptFrame ==
    {"sensitivity", "gain", "endurance", "elasticity", "receptor_mode",
     "kind", "dim", "motor_signals", "sensory_signals", "motor_prev",
     "sensory_prev"}

\* C28: an adapt call leaves sensitivity, gain, endurance, elasticity,
\* receptor mode, kind, dimension and all current and previous signal
\* buffers unchanged, on active and idle ticks alike.
C28_AdaptFrame ==
    Adapted => \A f \in AdaptFrame : tract[f] = Before[f]

\* --------------------------------- specification: output normalisation
\* motor tracts of one or two channels from the builder presets, driven by
\* any sequence of transmit_motor calls whose inputs have polarity in
\* {-1, 0, 1}; inputs shorter and longer than the tract occur
NormalDims == {1, 2}
NormalInputs ==
    {<<Sig(1, 200), Sig(-1, 90)>>, <<Sig(0, 50), Sig(1, 0)>>,
     <<Sig(-1, 255)>>, <<ZeroSignal, Sig(1, 3), Sig(1, 9)>>}
NormalSeeds == {<<42, 0, 0, 0>>, <<8, 0, 0, 0>>}
InitNormal ==
    /\ WeberStart
    /\ \E dim \in NormalDims : \E spec \in Presets(MotorSkeletal, dim) :
          TractStart(build(spec), FALSE)
NextNormal ==
    /\ steps < MaxSteps
    /\ steps' = steps + 1
    /\ \E input \in NormalInputs, seed \in NormalSeeds :
          TransmitMotor(input, seed)
SpecNormal == InitNormal /\ [][NextNormal]_vars

\* a signal as transmit_motor leaves it: u8 magnitude, polarity zero exactly
\* when the magnitude is zero
Normalised(sig) ==
    /\ sig.magnitude \in 0 .. 255
    /\ sig.polarity \in {-1, 0, 1}
    /\ (sig.polarity = 0) <=> (sig.magnitude = 0)

\* C29: after any sequence of transmit_motor calls with well-formed inputs
\* on a motor tract, every output channel has magnitude in 0..255 and
\* polarity 0 exactly when its magnitude is 0, the previous-output buffer
\* equals the current-output buffer channel by channel, and is_active()
\* holds if and only if activity_level() > 0.
C29_OutputNormalised ==
    (is_efferent(tract.kind) /\ status = "ok") =>
        /\ \A i \in 1 .. tract.dim :
              /\ Normalised(tract.motor_signals[i])
              /\ tract.motor_prev[i] = tract.motor_signals[i]
        /\ is_active(tract) <=> ~WIsZero(activity_level(tract))

\* a two-channel tract whose first channel decayed to a smaller nonzero
\* output and whose second channel decayed to silence
C29_Witness ==
    /\ last.op = "transmit_motor"
    /\ last.input = <<Sig(0, 50), Sig(1, 0)>>
    /\ tract.dim = 2
    /\ tract.motor_signals[1].magnitude > 0
    /\ tract.motor_signals[2] = ZeroSignal
    /\ is_active(tract)

\* severe jitter flipped the polarity of the input on the way out
C29_WitnessFlipped ==
    /\ last.op = "transmit_motor"
    /\ last.input = <<Sig(-1, 255)>>
    /\ tract.motor_signals[1].polarity = 1
    /\ tract.motor_signals[1].magnitude > 0

\* ------------------------------------ specification: constructor defaults
\* a one-channel tract as new_motor or new_sensory constructs it, driven by
\* any interleaving of transmit calls (a signal or silence) and adapt ticks
\* under the default config; steps counts the calls made
DefaultsMotorInputs == {<<Sig(1, 255)>>, <<ZeroSignal>>}
DefaultsSensoryInputs == {<<1000>>, <<0>>}
InitDefaults ==
    /\ WeberStart
    /\ \E id \in {0, 129} :
          \/ TractStart(WithInputDensity(new_motor(MotorSkeletal, 1), id), FALSE)
          \/ TractStart(WithInputDensity(new_sensory(Interoceptive, 1), id), FALSE)
NextDefaults ==
    /\ steps < MaxCalls
    /\ steps' = steps + 1
    /\ \/ /\ is_efferent(tract.kind)
          /\ \E input \in DefaultsMotorInputs : TransmitMotor(input, <<42, 0, 0, 0>>)
       \/ /\ is_afferent(tract.kind)
          /\ \E input \in DefaultsSensoryInputs :
                TransmitSensory(input, <<42, 0, 0, 0>>)
       \/ Adapt(DefaultConfig)
SpecDefaults == InitDefaults /\ [][NextDefaults]_vars

\* C30: from a tract built by new_motor or new_sensory and under the default
\* AdaptationConfig, fatigue stays 0 over every sequence of transmit and
\* adapt calls and no call increases strength.
C30_DefaultEnduranceCancelsFatigue ==
    /\ [](tract.fatigue = 0)
    /\ [][tract'.strength <= tract.strength]_vars

\* a third consecutive adapt tick on an active tract at default endurance:
\* fatigue is still 0 and strength is where it was
C30_Witness ==
    /\ Adapted
    /\ UsedConfig = DefaultConfig
    /\ is_active(Before)
    /\ Before.endurance = 128
    /\ Before.lifetime_activations >= 2
    /\ tract.fatigue = 0
    /\ tract.strength = Before.strength

=============================================================================
